---- MODULE Spec2Model ----
(***************************************************************************)
(* Model of the B15F host driver (src/src/lib.rs): the command codec, the  *)
(* session constructors and board discovery.                               *)
(*                                                                         *)
(* The serial transport is modelled as a recording double: it logs every   *)
(* write_all / flush / read_exact the driver issues, supplies the bytes    *)
(* the board sends, and can make one chosen call fail.                     *)
(***************************************************************************)
EXTENDS Integers, Sequences, FiniteSets, TLC

(* ------------------------------------------------------------------ *)
(* Bounds of the model                                                  *)
(* ------------------------------------------------------------------ *)

\* Width of the low and high edge taken from a byte range when a full
\* enumeration of 0..255 would be combined with another full range.
Edge == 1

\* Largest number of serial endpoints the enumeration returns.
MaxPorts == 2

(* ------------------------------------------------------------------ *)
(* Wire constants                                                       *)
(* ------------------------------------------------------------------ *)

MSG_OK == 255
RQ_TEST == 1
RQ_DIGITAL_WRITE_0 == 5
RQ_DIGITAL_WRITE_1 == 6
RQ_DIGITAL_READ_0 == 7
RQ_DIGITAL_READ_1 == 8
RQ_ANALOG_WRITE_0 == 10
RQ_ANALOG_WRITE_1 == 11
RQ_ANALOG_READ == 12
RQ_PWM_SET_FREQ == 14
RQ_PWM_SET_VALUE == 15

\* pub enum Port
Port == {"Port0", "Port1"}

\* bitflags! ReadManyPorts: u16
Digital0 == 256
Digital1 == 512
ANALOG0 == 4
ANALOG1 == 8
ANALOG2 == 16
ANALOG3 == 32
ANALOG4 == 64
ANALOG5 == 128
ANALOG6 == 1
ANALOG7 == 2

(* ------------------------------------------------------------------ *)
(* Input domains                                                        *)
(* ------------------------------------------------------------------ *)

\* u8
Byte == 0 .. 255

\* The low and the high edge of u8.
ByteSample == (0 .. Edge) \cup ((255 - Edge) .. 255)

\* u16 arguments of analog_write: the whole legal range, the values just
\* above it and the top of u16.
AnalogValues == (0 .. (1024 + Edge)) \cup ((65535 - Edge) .. 65535)

\* f32 in its IEEE-754 layout: 1 sign bit, 8 exponent bits, 23 mantissa bits.
F32(sign, exponent, mantissa) ==
    [sign |-> sign, exponent |-> exponent, mantissa |-> mantissa]

\* f32 arguments of set_pwm_frequency: 0.0, 1.0, 1000.0, -1.0, a NaN.
Frequencies ==
    {F32(0, 0, 0), F32(0, 127, 0), F32(0, 136, 7995392), F32(1, 127, 0),
     F32(0, 255, 4194304)}

(* ------------------------------------------------------------------ *)
(* Results: Result<T, E>, and a panic                                   *)
(* ------------------------------------------------------------------ *)

Ok(v) == [tag |-> "Ok", val |-> v, err |-> <<>>]
Err(e) == [tag |-> "Err", val |-> <<>>, err |-> e]
Panic == [tag |-> "Panic", val |-> <<>>, err |-> <<>>]
NoResult == [tag |-> "None", val |-> <<>>, err |-> <<>>]

\* B15FCommandError
IoError == <<"IoError">>
B15FError == <<"B15FError">>
\* B15FInitError; CommandError wraps a B15FCommandError (#[from])
CommandError(e) == <<"CommandError">> \o e
DeviceNotFound == <<"DeviceNotFound">>
DeviceNotSupported == <<"DeviceNotSupported">>
SerialPortError == <<"SerialPortError">>

(* ------------------------------------------------------------------ *)
(* The transport double                                                 *)
(* ------------------------------------------------------------------ *)

\* calls  : the calls made so far, in order
\* rx     : the bytes the board has sent and the driver has not read yet
\* failAt : the number of the call that fails (0: none does)
\* failed : a call has returned an I/O error
NewPort(rx, failAt) ==
    [calls |-> <<>>, rx |-> rx, failAt |-> failAt, failed |-> FALSE]

Call(fn, data, n) == [fn |-> fn, data |-> data, n |-> n]

Fails(p) == p.failAt = Len(p.calls) + 1

write_all(p, data) ==
    [port |-> [p EXCEPT !.calls = Append(@, Call("write_all", data, 0)),
                        !.failed = @ \/ Fails(p)],
     ok |-> ~Fails(p)]

flush(p) ==
    [port |-> [p EXCEPT !.calls = Append(@, Call("flush", <<>>, 0)),
                        !.failed = @ \/ Fails(p)],
     ok |-> ~Fails(p)]

\* read_exact fails when the transport errors or when the board does not
\* send n bytes before the read timeout elapses.
read_exact(p, n) ==
    LET ok == ~Fails(p) /\ Len(p.rx) >= n
    IN  [port |-> [p EXCEPT !.calls = Append(@, Call("read_exact", <<>>, n)),
                            !.rx = IF ok THEN SubSeq(@, n + 1, Len(@)) ELSE @,
                            !.failed = @ \/ ~ok],
         ok |-> ok,
         data |-> IF ok THEN SubSeq(p.rx, 1, n) ELSE <<>>]

Ret(p, res) == [port |-> p, res |-> res]

(* ------------------------------------------------------------------ *)
(* The command codec: impl<P> B15F<P>                                   *)
(* ------------------------------------------------------------------ *)

\* test() without the check of the status byte: the echo alone decides.
test_no_status_check(p, rand) ==
    LET w == write_all(p, <<RQ_TEST, rand>>)
    IN  IF ~w.ok THEN Ret(w.port, Err(IoError))
        ELSE LET r == read_exact(w.port, 2)
             IN  IF ~r.ok THEN Ret(r.port, Err(IoError))
                 ELSE Ret(r.port, Ok(r.data[2] = rand))

\* test() that reads the status byte alone, and the echo only after the
\* status byte was 0xFF.
test_status_first(p, rand) ==
    LET w == write_all(p, <<RQ_TEST, rand>>)
    IN  IF ~w.ok THEN Ret(w.port, Err(IoError)) ELSE
        LET s == read_exact(w.port, 1)
        IN  IF ~s.ok THEN Ret(s.port, Err(IoError))
            ELSE IF s.data[1] # MSG_OK THEN Ret(s.port, Err(B15FError)) ELSE
            LET r == read_exact(s.port, 1)
            IN  IF ~r.ok THEN Ret(r.port, Err(IoError))
                ELSE Ret(r.port, Ok(r.data[1] = rand))

test(p, rand) ==
    LET w == write_all(p, <<RQ_TEST, rand>>)
    IN  IF ~w.ok THEN Ret(w.port, Err(IoError))
        ELSE LET r == read_exact(w.port, 2)
             IN  IF ~r.ok THEN Ret(r.port, Err(IoError))
                 ELSE IF r.data[1] # MSG_OK THEN Ret(r.port, Err(B15FError))
                 ELSE Ret(r.port, Ok(r.data[2] = rand))

\* from() with test().unwrap_or(false): every failure of the handshake,
\* transport errors included, becomes DeviceNotSupported.
from_unwrap_or_false(p, rand) ==
    LET t == test(p, rand)
    IN  IF t.res.tag = "Err" THEN Ret(t.port, Err(DeviceNotSupported))
        ELSE IF ~t.res.val THEN Ret(t.port, Err(DeviceNotSupported))
        ELSE Ret(t.port, Ok("board"))

from(p, rand) ==
    LET t == test(p, rand)
    IN  IF t.res.tag = "Err" THEN Ret(t.port, Err(CommandError(t.res.err)))
        ELSE IF ~t.res.val THEN Ret(t.port, Err(DeviceNotSupported))
        ELSE Ret(t.port, Ok("board"))

\* opened: whether open_native succeeds on the named endpoint
open_port(opened, p, rand) ==
    IF ~opened THEN Ret(p, Err(SerialPortError))
    ELSE from(p, rand)

digital_write(p, port, value) ==
    LET request == IF port = "Port0" THEN RQ_DIGITAL_WRITE_0
                   ELSE RQ_DIGITAL_WRITE_1
        w == write_all(p, <<request, value>>)
    IN  IF ~w.ok THEN Ret(w.port, Err(IoError)) ELSE
        LET f == flush(w.port)
        IN  IF ~f.ok THEN Ret(f.port, Err(IoError)) ELSE
        LET r == read_exact(f.port, 1)
        IN  IF ~r.ok THEN Ret(r.port, Err(IoError))
            ELSE IF r.data[1] = MSG_OK THEN Ret(r.port, Ok(<<>>))
            ELSE Ret(r.port, Err(B15FError))

send_digital_read_request(p, port) ==
    LET request == IF port = "Port0" THEN RQ_DIGITAL_READ_0
                   ELSE RQ_DIGITAL_READ_1
        w == write_all(p, <<request>>)
    IN  IF ~w.ok THEN Ret(w.port, Err(IoError)) ELSE
        LET f == flush(w.port)
        IN  IF ~f.ok THEN Ret(f.port, Err(IoError))
            ELSE Ret(f.port, Ok(<<>>))

\* A reversal that swaps the two nibbles and leaves the bits inside them.
reverse_bits_nibbles(b) == (b % 16) * 16 + (b \div 16)

\* u8::reverse_bits: the bits of b leave at the low end and enter acc at
\* the low end, eight times.
RECURSIVE ReverseLoop(_, _, _)
ReverseLoop(b, acc, n) ==
    IF n = 0 THEN acc
    ELSE ReverseLoop(b \div 2, (acc * 2 + (b % 2)) % 256, n - 1)

reverse_bits(b) ==
    ReverseLoop(b, 0, 8)

read_digital_response(p) ==
    LET r == read_exact(p, 1)
    IN  IF ~r.ok THEN Ret(r.port, Err(IoError))
        ELSE Ret(r.port, Ok(reverse_bits(r.data[1])))

\* digital_read() that sends its request a second time before it reads.
digital_read_resend(p, port) ==
    LET s == send_digital_read_request(p, port)
    IN  IF s.res.tag = "Err" THEN s ELSE
        LET s2 == send_digital_read_request(s.port, port)
        IN  IF s2.res.tag = "Err" THEN s2 ELSE read_digital_response(s2.port)

digital_read(p, port) ==
    LET s == send_digital_read_request(p, port)
    IN  IF s.res.tag = "Err" THEN s ELSE read_digital_response(s.port)

\* analog_write() that sends the value high byte first.
analog_write_big_endian(p, port, value) ==
    LET request == IF port = "Port0" THEN RQ_ANALOG_WRITE_0
                   ELSE RQ_ANALOG_WRITE_1
    IN  IF value > 1023 THEN Ret(p, Panic) ELSE
        LET w == write_all(p, <<request, (value \div 256) % 256, value % 256>>)
        IN  IF ~w.ok THEN Ret(w.port, Err(IoError)) ELSE
        LET f == flush(w.port)
        IN  IF ~f.ok THEN Ret(f.port, Err(IoError)) ELSE
        LET r == read_exact(f.port, 1)
        IN  IF ~r.ok THEN Ret(r.port, Err(IoError))
            ELSE IF r.data[1] = MSG_OK THEN Ret(r.port, Ok(<<>>))
            ELSE Ret(r.port, Err(B15FError))

\* analog_write() that ignores the result of flush and goes on to read.
analog_write_ignore_flush(p, port, value) ==
    LET request == IF port = "Port0" THEN RQ_ANALOG_WRITE_0
                   ELSE RQ_ANALOG_WRITE_1
    IN  IF value > 1023 THEN Ret(p, Panic) ELSE
        LET w == write_all(p, <<request, value % 256, (value \div 256) % 256>>)
        IN  IF ~w.ok THEN Ret(w.port, Err(IoError)) ELSE
        LET f == flush(w.port)
            r == read_exact(f.port, 1)
        IN  IF ~r.ok THEN Ret(r.port, Err(IoError))
            ELSE IF r.data[1] = MSG_OK THEN Ret(r.port, Ok(<<>>))
            ELSE Ret(r.port, Err(B15FError))

\* analog_write() with the range check off by one: 1024 is let through.
analog_write_off_by_one(p, port, value) ==
    LET request == IF port = "Port0" THEN RQ_ANALOG_WRITE_0
                   ELSE RQ_ANALOG_WRITE_1
    IN  IF value > 1024 THEN Ret(p, Panic) ELSE
        LET w == write_all(p, <<request, value % 256, (value \div 256) % 256>>)
        IN  IF ~w.ok THEN Ret(w.port, Err(IoError)) ELSE
        LET f == flush(w.port)
        IN  IF ~f.ok THEN Ret(f.port, Err(IoError)) ELSE
        LET r == read_exact(f.port, 1)
        IN  IF ~r.ok THEN Ret(r.port, Err(IoError))
            ELSE IF r.data[1] = MSG_OK THEN Ret(r.port, Ok(<<>>))
            ELSE Ret(r.port, Err(B15FError))

analog_write(p, port, value) ==
    LET request == IF port = "Port0" THEN RQ_ANALOG_WRITE_0
                   ELSE RQ_ANALOG_WRITE_1
    IN  IF value > 1023 THEN Ret(p, Panic) ELSE
        LET w == write_all(p, <<request, value % 256, (value \div 256) % 256>>)
        IN  IF ~w.ok THEN Ret(w.port, Err(IoError)) ELSE
        LET f == flush(w.port)
        IN  IF ~f.ok THEN Ret(f.port, Err(IoError)) ELSE
        LET r == read_exact(f.port, 1)
        IN  IF ~r.ok THEN Ret(r.port, Err(IoError))
            ELSE IF r.data[1] = MSG_OK THEN Ret(r.port, Ok(<<>>))
            ELSE Ret(r.port, Err(B15FError))

send_analog_read_request(p, port) ==
    IF ~(port <= 7) THEN Ret(p, Panic) ELSE
    LET w == write_all(p, <<RQ_ANALOG_READ, port>>)
    IN  IF ~w.ok THEN Ret(w.port, Err(IoError)) ELSE
        LET f == flush(w.port)
        IN  IF ~f.ok THEN Ret(f.port, Err(IoError))
            ELSE Ret(f.port, Ok(<<>>))

\* The two bytes taken high byte first (u16::from_be_bytes).
from_be_bytes(bytes) == bytes[2] + 256 * bytes[1]

\* u16::from_le_bytes
from_le_bytes(bytes) ==
    bytes[1] + 256 * bytes[2]

read_analog_response(p) ==
    LET r == read_exact(p, 2)
    IN  IF ~r.ok THEN Ret(r.port, Err(IoError))
        ELSE Ret(r.port, Ok(from_le_bytes(r.data)))

analog_read(p, port) ==
    LET s == send_analog_read_request(p, port)
    IN  IF s.res.tag # "Ok" THEN s ELSE read_analog_response(s.port)

\* f32::to_le_bytes: the 32 bits sign | exponent | mantissa, low byte first
to_le_bytes(f) ==
    << f.mantissa % 256,
       (f.mantissa \div 256) % 256,
       (f.exponent % 2) * 128 + (f.mantissa \div 65536),
       f.sign * 128 + (f.exponent \div 2) >>

\* set_pwm_frequency() that reads its response byte as a status byte, the
\* way the status-bearing commands do.
set_pwm_frequency_status(p, frequency) ==
    LET data == to_le_bytes(frequency)
        w == write_all(p, <<RQ_PWM_SET_FREQ, data[1], data[2], data[3], data[4]>>)
    IN  IF ~w.ok THEN Ret(w.port, Err(IoError)) ELSE
        LET f == flush(w.port)
        IN  IF ~f.ok THEN Ret(f.port, Err(IoError)) ELSE
        LET r == read_exact(f.port, 1)
        IN  IF ~r.ok THEN Ret(r.port, Err(IoError))
            ELSE IF r.data[1] = MSG_OK THEN Ret(r.port, Ok(r.data[1]))
            ELSE Ret(r.port, Err(B15FError))

set_pwm_frequency(p, frequency) ==
    LET data == to_le_bytes(frequency)
        w == write_all(p, <<RQ_PWM_SET_FREQ, data[1], data[2], data[3], data[4]>>)
    IN  IF ~w.ok THEN Ret(w.port, Err(IoError)) ELSE
        LET f == flush(w.port)
        IN  IF ~f.ok THEN Ret(f.port, Err(IoError)) ELSE
        LET r == read_exact(f.port, 1)
        IN  IF ~r.ok THEN Ret(r.port, Err(IoError))
            ELSE Ret(r.port, Ok(r.data[1]))

\* set_pwm_vale() that takes only the byte 0xFE (the protocol's MSG_ERROR)
\* for a board error and every other status byte for success.
set_pwm_vale_msg_error(p, value) ==
    LET w == write_all(p, <<RQ_PWM_SET_VALUE, value>>)
    IN  IF ~w.ok THEN Ret(w.port, Err(IoError)) ELSE
        LET f == flush(w.port)
        IN  IF ~f.ok THEN Ret(f.port, Err(IoError)) ELSE
        LET r == read_exact(f.port, 1)
        IN  IF ~r.ok THEN Ret(r.port, Err(IoError))
            ELSE IF r.data[1] = MSG_OK - 1 THEN Ret(r.port, Err(B15FError))
            ELSE Ret(r.port, Ok(<<>>))

set_pwm_vale(p, value) ==
    LET w == write_all(p, <<RQ_PWM_SET_VALUE, value>>)
    IN  IF ~w.ok THEN Ret(w.port, Err(IoError)) ELSE
        LET f == flush(w.port)
        IN  IF ~f.ok THEN Ret(f.port, Err(IoError)) ELSE
        LET r == read_exact(f.port, 1)
        IN  IF ~r.ok THEN Ret(r.port, Err(IoError))
            ELSE IF r.data[1] = MSG_OK THEN Ret(r.port, Ok(<<>>))
            ELSE Ret(r.port, Err(B15FError))

\* ReadManyPorts::contains for a flag of one bit: that bit of ports is set.
contains(ports, flag) == (ports \div flag) % 2 = 1

from_analog(port) ==
    CASE port = 0 -> ANALOG0
      [] port = 1 -> ANALOG1
      [] port = 2 -> ANALOG2
      [] port = 3 -> ANALOG3
      [] port = 4 -> ANALOG4
      [] port = 5 -> ANALOG5
      [] port = 6 -> ANALOG6
      [] port = 7 -> ANALOG7

\* for port in 0..8_u8 { if ports.contains(..) { send_analog_read_request(port)?; } }
RECURSIVE SendAnalogRequests(_, _, _)
SendAnalogRequests(p, ports, port) ==
    IF port = 8 THEN Ret(p, Ok(<<>>))
    ELSE IF contains(ports, from_analog(port))
    THEN LET s == send_analog_read_request(p, port)
         IN  IF s.res.tag # "Ok" THEN s
             ELSE SendAnalogRequests(s.port, ports, port + 1)
    ELSE SendAnalogRequests(p, ports, port + 1)

\* for port in 0..8_u8 { if ports.contains(..) { analog[port as usize] =
\* read_analog_response()?; } }: the response is read first, then the
\* element is assigned, and an index outside the array panics.
RECURSIVE ReadAnalogResponses(_, _, _, _)
ReadAnalogResponses(p, ports, port, analog) ==
    IF port = 8 THEN Ret(p, Ok(analog))
    ELSE IF contains(ports, from_analog(port))
    THEN LET r == read_analog_response(p)
         IN  IF r.res.tag # "Ok" THEN r
             ELSE IF port + 1 > Len(analog) THEN Ret(r.port, Panic)
             ELSE ReadAnalogResponses(r.port, ports, port + 1,
                                      [analog EXCEPT ![port + 1] = r.res.val])
    ELSE ReadAnalogResponses(p, ports, port + 1, analog)

\* The result is (digital, analog): [u8; 2] and [u16; 7].
experiment_read_many(p, ports) ==
    LET s0 == IF contains(ports, Digital0)
              THEN send_digital_read_request(p, "Port0")
              ELSE Ret(p, Ok(<<>>))
    IN  IF s0.res.tag = "Err" THEN s0 ELSE
        LET s1 == IF contains(ports, Digital1)
                  THEN send_digital_read_request(s0.port, "Port1")
                  ELSE Ret(s0.port, Ok(<<>>))
        IN  IF s1.res.tag = "Err" THEN s1 ELSE
        LET sa == SendAnalogRequests(s1.port, ports, 0)
        IN  IF sa.res.tag # "Ok" THEN sa ELSE
        LET f == flush(sa.port)
        IN  IF ~f.ok THEN Ret(f.port, Err(IoError)) ELSE
        LET r0 == IF contains(ports, Digital0)
                  THEN read_digital_response(f.port)
                  ELSE Ret(f.port, Ok(0))
        IN  IF r0.res.tag = "Err" THEN r0 ELSE
        LET r1 == IF contains(ports, Digital1)
                  THEN read_digital_response(r0.port)
                  ELSE Ret(r0.port, Ok(0))
        IN  IF r1.res.tag = "Err" THEN r1 ELSE
        LET ra == ReadAnalogResponses(r1.port, ports, 0,
                                      <<0, 0, 0, 0, 0, 0, 0>>)
        IN  IF ra.res.tag # "Ok" THEN ra
            ELSE Ret(ra.port, Ok(<<<<r0.res.val, r1.res.val>>, ra.res.val>>))

(* ------------------------------------------------------------------ *)
(* State                                                                *)
(* ------------------------------------------------------------------ *)

VARIABLES
    pc,       \* the caller: "idle" between calls, "returned" with a result
    session,  \* "none", or "ready" once a constructor has returned a session
    op,       \* the call made: its name and arguments
    fed,      \* the bytes the board sent in answer during the call
    port,     \* the transport double as the call left it
    result,   \* what the call returned
    dpc,      \* instance(): "idle" before the call, "loop", "done"
    ports,    \* the endpoint types available_ports() returned, in its order
    order,    \* the probe order: indices into ports, as sorted
    idx,      \* the position of the for loop in order
    skipped,  \* the candidates the loop has passed over, in probe order
    last,     \* the probe of the latest candidate
    held,     \* the endpoints whose transport is open
    peak,     \* the most transports that were open at one time
    found     \* what instance() returned

cvars == <<pc, session, op, fed, port, result>>
dvars == <<dpc, ports, order, idx, skipped, last, held, peak, found>>
vars == <<pc, session, op, fed, port, result,
          dpc, ports, order, idx, skipped, last, found>>

\* Option<T>
Some(v) == [tag |-> "Some", val |-> v]
None == [tag |-> "None", val |-> 0]
Pending == [tag |-> "Pending", val |-> 0]

\* The record of one candidate's probe: the endpoint, what open_port
\* returned, what the test() after it returned, the calls its transport saw.
Probe(name, init, retest, calls) ==
    [name |-> name, init |-> init, retest |-> retest, calls |-> calls]

NoProbe == Probe(0, NoResult, NoResult, <<>>)

\* name: the operation; sel: its Port argument; arg: its numeric argument
\* (value, channel, frequency); rand: the byte random::<u8>() drew;
\* opened: whether the endpoint could be opened (open_port)
Op(name, sel, arg, rand, opened) ==
    [name |-> name, sel |-> sel, arg |-> arg, rand |-> rand, opened |-> opened]

NoOp == Op("none", "none", 0, 0, FALSE)

\* What the board may answer to analog_read: for a channel that exists,
\* every low byte with the high bytes at the edges and every high byte
\* with the low bytes at the edges, and the answers that stop short.
AnalogAnswers(channel) ==
    IF channel <= 7
    THEN UNION {[1 .. k -> ByteSample] : k \in 0 .. 1}
         \cup {<<lo, hi>> : lo \in Byte, hi \in ByteSample}
         \cup {<<lo, hi>> : lo \in ByteSample, hi \in Byte}
    ELSE UNION {[1 .. k -> ByteSample] : k \in 0 .. 2}

\* The byte sequences of length 0 .. n over S: what the board may send
\* before the read timeout.
Rx(S, n) == UNION {[1 .. k -> S] : k \in 0 .. n}

Init ==
    /\ pc = "idle"
    /\ session = "none"
    /\ op = NoOp
    /\ fed = <<>>
    /\ port = NewPort(<<>>, 0)
    /\ result = NoResult
    /\ dpc = "idle"
    /\ ports = <<>>
    /\ order = <<>>
    /\ idx = 0
    /\ skipped = <<>>
    /\ last = NoProbe
    /\ held = {}
    /\ peak = 0
    /\ found = Pending

\* The call returns out: the double's record of it and its result.
Returned(o, rx, out) ==
    /\ pc' = "returned"
    /\ op' = o
    /\ fed' = rx
    /\ port' = out.port
    /\ result' = out.res
    /\ UNCHANGED dvars

(* ------------------------------------------------------------------ *)
(* Calls                                                                *)
(* ------------------------------------------------------------------ *)

Call_from ==
    /\ pc = "idle"
    /\ \E rand \in Byte, failAt \in 0 .. 2 :
       \E rx \in Rx(ByteSample \cup {rand}, 2) :
          LET out == from(NewPort(rx, failAt), rand)
          IN  /\ Returned(Op("from", "none", 0, rand, TRUE), rx, out)
              /\ session' = IF out.res.tag = "Ok" THEN "ready" ELSE "none"

Call_open_port ==
    /\ pc = "idle"
    /\ \E opened \in BOOLEAN, rand \in ByteSample, failAt \in 0 .. 2 :
       \E rx \in Rx(ByteSample, 2) :
          LET out == open_port(opened, NewPort(rx, failAt), rand)
          IN  /\ Returned(Op("open_port", "none", 0, rand, opened), rx, out)
              /\ session' = IF out.res.tag = "Ok" THEN "ready" ELSE "none"

Call_test ==
    /\ pc = "idle"
    /\ session = "ready"
    /\ \E rand \in Byte, failAt \in 0 .. 2 :
       \E rx \in Rx(ByteSample \cup {rand}, 2) :
          /\ Returned(Op("test", "none", 0, rand, TRUE), rx,
                      test(NewPort(rx, failAt), rand))
          /\ UNCHANGED session

Call_digital_write ==
    /\ pc = "idle"
    /\ session = "ready"
    /\ \E sel \in Port, value \in ByteSample, failAt \in 0 .. 3 :
       \E rx \in Rx(Byte, 1) :
          /\ Returned(Op("digital_write", sel, value, 0, TRUE), rx,
                      digital_write(NewPort(rx, failAt), sel, value))
          /\ UNCHANGED session

Call_digital_read ==
    /\ pc = "idle"
    /\ session = "ready"
    /\ \E sel \in Port, failAt \in 0 .. 3 :
       \E rx \in Rx(Byte, 1) :
          /\ Returned(Op("digital_read", sel, 0, 0, TRUE), rx,
                      digital_read(NewPort(rx, failAt), sel))
          /\ UNCHANGED session

Call_analog_write ==
    /\ pc = "idle"
    /\ session = "ready"
    /\ \E sel \in Port, value \in AnalogValues, failAt \in 0 .. 3 :
       \E rx \in Rx(IF value \in {0, 1023} THEN Byte ELSE ByteSample, 1) :
          /\ Returned(Op("analog_write", sel, value, 0, TRUE), rx,
                      analog_write(NewPort(rx, failAt), sel, value))
          /\ UNCHANGED session

Call_analog_read ==
    /\ pc = "idle"
    /\ session = "ready"
    /\ \E channel \in Byte, failAt \in 0 .. 3 :
       \E rx \in AnalogAnswers(channel) :
          /\ Returned(Op("analog_read", "none", channel, 0, TRUE), rx,
                      analog_read(NewPort(rx, failAt), channel))
          /\ UNCHANGED session

Call_set_pwm_frequency ==
    /\ pc = "idle"
    /\ session = "ready"
    /\ \E frequency \in Frequencies, failAt \in 0 .. 3 :
       \E rx \in Rx(Byte, 1) :
          /\ Returned(Op("set_pwm_frequency", "none", frequency, 0, TRUE), rx,
                      set_pwm_frequency(NewPort(rx, failAt), frequency))
          /\ UNCHANGED session

Call_set_pwm_vale ==
    /\ pc = "idle"
    /\ session = "ready"
    /\ \E value \in ByteSample, failAt \in 0 .. 3 :
       \E rx \in Rx(Byte, 1) :
          /\ Returned(Op("set_pwm_vale", "none", value, 0, TRUE), rx,
                      set_pwm_vale(NewPort(rx, failAt), value))
          /\ UNCHANGED session

\* The values of ReadManyPorts: every set of the ten flags.
ReadManySets == 0 .. (Digital0 + Digital1 + ANALOG0 + ANALOG1 + ANALOG2
                      + ANALOG3 + ANALOG4 + ANALOG5 + ANALOG6 + ANALOG7)

\* The number of response bytes the requests of many call for.
ReadManyBytes(many) ==
    (IF contains(many, Digital0) THEN 1 ELSE 0)
    + (IF contains(many, Digital1) THEN 1 ELSE 0)
    + 2 * Cardinality({c \in 0 .. 7 : contains(many, from_analog(c))})

\* What the board may answer to the requests of a multi-read: n bytes, or
\* one byte less, no two bytes of an answer alike.
ReadManyAnswers(n) ==
    {[j \in 1 .. k |-> (base + 17 * j) % 256] :
        base \in ByteSample, k \in {n, IF n > 0 THEN n - 1 ELSE 0}}

Call_experiment_read_many ==
    /\ pc = "idle"
    /\ session = "ready"
    /\ \E many \in ReadManySets, failAt \in 0 .. 3 :
       \E rx \in ReadManyAnswers(ReadManyBytes(many)) :
          /\ Returned(Op("experiment_read_many", "none", many, 0, TRUE), rx,
                      experiment_read_many(NewPort(rx, failAt), many))
          /\ UNCHANGED session

\* The caller takes the result; the session (if any) is free for the
\* next call, which starts with a fresh record.
Resume ==
    /\ pc = "returned"
    /\ pc' = "idle"
    /\ op' = NoOp
    /\ fed' = <<>>
    /\ port' = NewPort(<<>>, 0)
    /\ result' = NoResult
    /\ UNCHANGED session
    /\ UNCHANGED dvars

Next ==
    \/ Call_from
    \/ Call_open_port
    \/ Call_test
    \/ Call_digital_write
    \/ Call_digital_read
    \/ Call_analog_write
    \/ Call_analog_read
    \/ Call_set_pwm_frequency
    \/ Call_set_pwm_vale
    \/ Call_experiment_read_many
    \/ Resume

Spec == Init /\ [][Next]_vars


(* ------------------------------------------------------------------ *)
(* Discovery: B15F::instance                                            *)
(* ------------------------------------------------------------------ *)

\* serialport::SerialPortType
SerialPortType == {"UsbPort", "PciPort", "BluetoothPort", "Unknown"}

port_priority(port_type) ==
    CASE port_type = "UsbPort" -> 0
      [] port_type = "PciPort" -> 1
      [] port_type = "BluetoothPort" -> 2
      [] port_type = "Unknown" -> 3

\* What available_ports() may return: up to MaxPorts endpoints.
Enumerations == UNION {[1 .. n -> SerialPortType] : n \in 0 .. MaxPorts}

\* The orders of 1 .. n: every index exactly once.
Orders(n) == {o \in [1 .. n -> 1 .. n] : \A i, j \in 1 .. n : o[i] = o[j] => i = j}

\* slice::sort_unstable_by_key: the result is ordered by the key, and the
\* order of elements with equal keys is not specified. The orders it may
\* leave the endpoints l in, as indices into l.
sort_unstable_by_key(l) ==
    {o \in Orders(Len(l)) :
        \A i, j \in 1 .. Len(l) :
            i < j => port_priority(l[o[i]]) <= port_priority(l[o[j]])}

\* The bytes a probed endpoint may answer with, and the bytes random::<u8>()
\* draws during discovery.
ProbeBytes == {0, MSG_OK}

\* What the transport does during one round trip: the call that fails
\* (failAt, counted from the transport's first call; 0: none) and the
\* bytes the board answers with. A board that was not sent the request
\* (the write fails) answers nothing.
RoundTrips(first) ==
    {[failAt |-> f, rx |-> rx] :
        f \in {0, first, first + 1},
        rx \in Rx(ProbeBytes, 2)} \
    {t \in [failAt : {first}, rx : Rx(ProbeBytes, 2)] : t.rx # <<>>}

\* The transport p enters its next round trip t.
Continue(p, t) == [p EXCEPT !.rx = @ \o t.rx, !.failAt = t.failAt]

\* let mut ports = available_ports().ok()?; ports.sort_unstable_by_key(..)
instance_begin ==
    /\ dpc = "idle"
    /\ \E enumerated \in BOOLEAN :
          IF ~enumerated
          THEN /\ dpc' = "done"
               /\ found' = None
               /\ UNCHANGED <<ports, order, idx>>
          ELSE \E l \in Enumerations :
               \E o \in sort_unstable_by_key(l) :
                  /\ dpc' = "loop"
                  /\ ports' = l
                  /\ order' = o
                  /\ idx' = 1
                  /\ UNCHANGED found
    /\ UNCHANGED <<skipped, last, held, peak>>
    /\ UNCHANGED cvars

\* serialport::new(..).open() returned a transport for the candidate: every
\* other failure of open_port comes from the handshake on the open transport.
Opened(probe) == probe.init # Err(SerialPortError)

\* The candidate's transport is open while it is probed, next to those
\* already open.
Peak(probe) ==
    LET now == Cardinality(held) + (IF Opened(probe) THEN 1 ELSE 0)
    IN  IF now > peak THEN now ELSE peak

\* The candidate's transport stays open after its iteration.
Skip_keep_open(probe) ==
    /\ last' = probe
    /\ skipped' = Append(skipped, [name |-> probe.name, init |-> probe.init.tag])
    /\ idx' = idx + 1
    /\ held' = IF Opened(probe) THEN held \cup {probe.name} ELSE held
    /\ peak' = Peak(probe)
    /\ UNCHANGED <<dpc, found>>

\* The loop does not move on from the candidate.
Skip_revisit(probe) ==
    /\ last' = probe
    /\ peak' = Peak(probe)
    /\ UNCHANGED <<skipped, idx, held, dpc, found>>

\* One iteration of the for loop ended with board = None: the candidate's
\* transport is dropped with the failed session and the loop goes on.
Skip(probe) ==
    /\ last' = probe
    /\ skipped' = Append(skipped, [name |-> probe.name, init |-> probe.init.tag])
    /\ idx' = idx + 1
    /\ held' = held
    /\ peak' = Peak(probe)
    /\ UNCHANGED <<dpc, found>>

\* One iteration of the for loop ended with board = Some(board).
Choose(probe) ==
    /\ last' = probe
    /\ found' = Some(probe.name)
    /\ dpc' = "done"
    /\ held' = held \cup {probe.name}
    /\ peak' = Peak(probe)
    /\ UNCHANGED <<skipped, idx>>

\* One iteration of the for loop: open_port, then test() on the session it
\* returned; .ok() drops either error, and .ok()? drops test()'s bool.
instance_probe ==
    /\ dpc = "loop"
    /\ idx <= Len(order)
    /\ \E opened \in BOOLEAN, rand \in ProbeBytes, t \in RoundTrips(1) :
          LET name == order[idx]
              init == open_port(opened, NewPort(t.rx, t.failAt), rand)
          IN  IF init.res.tag # "Ok"
              THEN Skip(Probe(name, init.res, NoResult, init.port.calls))
              ELSE \E rand2 \in ProbeBytes, t2 \in RoundTrips(3) :
                      LET retest == test(Continue(init.port, t2), rand2)
                          probe == Probe(name, init.res, retest.res,
                                         retest.port.calls)
                      IN  IF retest.res.tag # "Ok"
                          THEN Skip(probe)
                          ELSE Choose(probe)
    /\ UNCHANGED <<ports, order>>
    /\ UNCHANGED cvars

\* The for loop is over: None.
instance_none ==
    /\ dpc = "loop"
    /\ idx > Len(order)
    /\ dpc' = "done"
    /\ found' = None
    /\ UNCHANGED <<ports, order, idx, skipped, last, held, peak>>
    /\ UNCHANGED cvars

NextDiscovery ==
    \/ instance_begin
    \/ instance_probe
    \/ instance_none

SpecDiscovery == Init /\ [][NextDiscovery]_vars

\* Every transport call returns (success, error or timeout), so an
\* iteration of the loop that has begun ends and the next one begins.
SpecDiscoveryFair == SpecDiscovery /\ WF_vars(NextDiscovery)


(* ------------------------------------------------------------------ *)
(* Properties                                                           *)
(* ------------------------------------------------------------------ *)

\* The call op has returned and left its record.
Done(name) == pc = "returned" /\ op.name = name

\* The positions in the log of the calls to fn.
Calls(fn) == {i \in 1 .. Len(port.calls) : port.calls[i].fn = fn}

\* Bit i of the byte b.
Bit(b, i) == (b \div (2 ^ i)) % 2

CommandOps ==
    {"test", "digital_write", "digital_read", "analog_write", "analog_read",
     "set_pwm_frequency", "set_pwm_vale"}

\* C1: in every command operation, each read_exact of the response is
\* preceded by a flush that follows the write_all of the request.
C1_FlushBeforeRead ==
    (pc = "returned" /\ op.name \in CommandOps) =>
        \A j \in Calls("read_exact") :
            \E k \in Calls("flush") :
                /\ k < j
                /\ \E i \in Calls("write_all") : i < k

\* C2: from() on a transport whose calls all succeed returns a session
\* exactly when the board answered (0xFF, r), and DeviceNotSupported for
\* every other answer.
C2_FromMismatchIsNotSupported ==
    (Done("from") /\ ~port.failed) =>
        /\ result.tag = "Ok" <=> fed = <<MSG_OK, op.rand>>
        /\ result.tag # "Ok" =>
              result.tag = "Err" /\ result.err = DeviceNotSupported

\* C3: open_port keeps its failures apart: an endpoint that cannot be
\* opened gives SerialPortError, a failing write or read during the
\* handshake gives the I/O error, neither is DeviceNotSupported or
\* DeviceNotFound, and DeviceNotSupported comes only after a handshake
\* that completed on the transport.
C3_OpenPortFailureKinds ==
    Done("open_port") =>
        /\ ~op.opened =>
              result.tag = "Err" /\ result.err = SerialPortError
        /\ (op.opened /\ port.failed) =>
              result.tag = "Err" /\ result.err = CommandError(IoError)
        /\ (~op.opened \/ port.failed) =>
              result.err \notin {DeviceNotSupported, DeviceNotFound}
        /\ result.err = DeviceNotSupported =>
              /\ op.opened
              /\ ~port.failed
              /\ Calls("write_all") = {1}
              /\ Calls("read_exact") = {2}

C3_Witness ==
    /\ Done("open_port")
    /\ op.opened
    /\ port.failed
    /\ result.err = CommandError(IoError)

\* C4: analog_write with a value above 1023 and analog_read with a channel
\* above 7 are rejected with no call to the transport; inside the ranges
\* the request is written, and analog_write returns success when the board
\* answers 0xFF.
C4_RejectedBeforeIo ==
    /\ Done("analog_write") =>
          IF op.arg > 1023
          THEN port.calls = <<>> /\ result.tag = "Panic"
          ELSE /\ port.calls # <<>>
               /\ port.calls[1].fn = "write_all"
               /\ Len(port.calls[1].data) = 3
               /\ (~port.failed /\ fed = <<MSG_OK>>) => result.tag = "Ok"
    /\ Done("analog_read") =>
          IF op.arg > 7
          THEN port.calls = <<>> /\ result.tag = "Panic"
          ELSE /\ port.calls # <<>>
               /\ port.calls[1].fn = "write_all"
               /\ port.calls[1].data = <<RQ_ANALOG_READ, op.arg>>

C4_Witness ==
    /\ Done("analog_write")
    /\ op.arg = 1024
    /\ port.calls = <<>>
    /\ result.tag = "Panic"

\* C5: test() sends (1, r) and reads two bytes (s, e): true when s = 0xFF and
\* e = r, false when s = 0xFF and e # r, B15FError when s # 0xFF.
C5_TestOutcome ==
    Done("test") =>
        /\ port.calls[1] = Call("write_all", <<RQ_TEST, op.rand>>, 0)
        /\ \A j \in Calls("read_exact") : port.calls[j].n = 2
        /\ ~port.failed =>
              /\ Len(fed) = 2
              /\ (fed[1] = MSG_OK /\ fed[2] = op.rand) =>
                    result.tag = "Ok" /\ result.val = TRUE
              /\ (fed[1] = MSG_OK /\ fed[2] # op.rand) =>
                    result.tag = "Ok" /\ result.val = FALSE
              /\ fed[1] # MSG_OK =>
                    result.tag = "Err" /\ result.err = B15FError

C5_Witness ==
    /\ Done("test")
    /\ ~port.failed
    /\ fed[1] # MSG_OK
    /\ fed[2] = op.rand
    /\ result.err = B15FError

StatusOps == {"digital_write", "analog_write", "set_pwm_vale"}

\* C9: digital_write, analog_write and set_pwm_vale return IoError (never
\* B15FError) when write_all, flush or read_exact fails, success when the
\* status byte received is 0xFF, and B15FError (never IoError) for each of
\* the other 255 status bytes.
C9_StatusOutcome ==
    (pc = "returned" /\ op.name \in StatusOps /\ port.calls # <<>>) =>
        /\ port.failed => result.tag = "Err" /\ result.err = IoError
        /\ (~port.failed /\ fed[1] = MSG_OK) => result.tag = "Ok"
        /\ (~port.failed /\ fed[1] # MSG_OK) =>
              result.tag = "Err" /\ result.err = B15FError

C9_Witness ==
    /\ Done("set_pwm_vale")
    /\ ~port.failed
    /\ fed = <<0>>
    /\ result.err = B15FError

\* C10: digital_read sends the one-byte request of its port and returns the
\* byte the transport supplies with its bits reversed (bit i of the result
\* is bit 7 - i of the byte), whatever the byte is.
C10_DigitalReadReversesBits ==
    Done("digital_read") =>
        /\ port.calls[1] =
              Call("write_all",
                   <<IF op.sel = "Port0" THEN RQ_DIGITAL_READ_0
                     ELSE RQ_DIGITAL_READ_1>>, 0)
        /\ ~port.failed =>
              /\ Len(fed) = 1
              /\ result.tag = "Ok"
              /\ \A i \in 0 .. 7 : Bit(result.val, i) = Bit(fed[1], 7 - i)

C10_Witness ==
    /\ Done("digital_read")
    /\ op.sel = "Port1"
    /\ fed = <<1>>
    /\ result.tag = "Ok"
    /\ result.val = 128

\* The candidates passed over so far that open_port had returned a session
\* for: endpoint opened, handshake answered (0xFF, r).
SkippedWithSession == {i \in 1 .. Len(skipped) : skipped[i].init = "Ok"}

\* The endpoints in enumeration order are probed in the order of a stable
\* sort by priority.
StableOrder(l, o) ==
    \A i, j \in 1 .. Len(o) :
        i < j =>
            \/ port_priority(l[o[i]]) < port_priority(l[o[j]])
            \/ port_priority(l[o[i]]) = port_priority(l[o[j]]) /\ o[i] < o[j]

\* C6: discovery probes the endpoints in the order of a stable sort
\* ascending by priority: lower priority numbers first, equal priorities in
\* enumeration order.
C6_StableProbeOrder ==
    dpc # "idle" => StableOrder(ports, order)

\* C7: discovery returns the first candidate in probe order whose open and
\* handshake both succeed: the candidate returned is one for which they
\* did, and no candidate for which they did is passed over.
C7_FirstPassingChosen ==
    /\ (dpc = "done" /\ found.tag = "Some") =>
          last.name = found.val /\ last.init.tag = "Ok"
    /\ SkippedWithSession = {}

\* C8: discovery returns no session exactly when no candidate passes open
\* plus handshake (an empty enumeration included), and returns nothing else
\* than a session or none.
C8_NoneIffNoCandidatePasses ==
    dpc = "done" =>
        /\ found.tag \in {"Some", "None"}
        /\ found.tag = "None" <=>
              /\ SkippedWithSession = {}
              /\ last.init.tag # "Ok"


\* The calls to fn in the log, in order.
Logged(fn) ==
    LET Is(c) == c.fn = fn
    IN  SelectSeq(port.calls, Is)

\* C11: analog_read of a channel in 0 .. 7 sends (12, channel), reads two
\* bytes once and returns lo + 256 * hi for every answer (lo, hi), with no
\* status check: no answer is reported as a board error.
C11_AnalogReadLittleEndian ==
    (Done("analog_read") /\ op.arg <= 7) =>
        /\ port.calls[1] = Call("write_all", <<RQ_ANALOG_READ, op.arg>>, 0)
        /\ Cardinality(Calls("read_exact")) <= 1
        /\ \A j \in Calls("read_exact") : port.calls[j].n = 2
        /\ result.err # B15FError
        /\ ~port.failed =>
              /\ Len(fed) = 2
              /\ result.tag = "Ok"
              /\ result.val = fed[1] + 256 * fed[2]

C11_Witness ==
    /\ Done("analog_read")
    /\ op.arg = 7
    /\ fed = <<254, 1>>
    /\ result.tag = "Ok"
    /\ result.val = 510

\* C12: set_pwm_frequency returns the response byte as it is for each of
\* the 256 bytes, never B15FError, and an error only when the transport
\* fails.
C12_PwmFrequencyPassThrough ==
    Done("set_pwm_frequency") =>
        /\ result.err # B15FError
        /\ result.tag = "Err" => port.failed /\ result.err = IoError
        /\ ~port.failed =>
              /\ Len(fed) = 1
              /\ result.tag = "Ok"
              /\ result.val = fed[1]

C12_Witness ==
    /\ Done("set_pwm_frequency")
    /\ fed = <<0>>
    /\ result.tag = "Ok"
    /\ result.val = 0

\* Each request is written only when every request written before it has
\* had its response read.
OneAtATime ==
    \A i \in Calls("write_all") :
        Cardinality({w \in Calls("write_all") : w < i})
            = Cardinality({r \in Calls("read_exact") : r < i})

\* C14 as stated: in every public operation of the session, the
\* multi-read included, no request is written while the response of a
\* request written before has not been read.
C14_NoCommandInFlight ==
    (pc = "returned"
        /\ op.name \in CommandOps \cup {"experiment_read_many"}) =>
        OneAtATime

\* C14 as amended: within a call of any command other than the multi-read
\* no request is written while the response of an earlier one has not been
\* read; the multi-read writes all its requests before its first read.
C14_OneInFlightExceptReadMany ==
    /\ (pc = "returned" /\ op.name \in CommandOps) => OneAtATime
    /\ Done("experiment_read_many") =>
          \A w \in Calls("write_all"), r \in Calls("read_exact") : w < r

C14_Witness ==
    /\ Done("digital_read")
    /\ ~port.failed
    /\ Calls("write_all") = {1}
    /\ Calls("read_exact") = {3}

\* C15: a call of a command operation writes its request at most once and
\* reads its response at most once, and the first failing write_all, flush
\* or read_exact is its last call on the transport: it returns that error.
C15_NoRetry ==
    (pc = "returned" /\ op.name \in CommandOps) =>
        /\ Cardinality(Calls("write_all")) <= 1
        /\ Cardinality(Calls("read_exact")) <= 1
        /\ Calls("read_exact") \subseteq {Len(port.calls)}
        /\ port.failAt \in 1 .. Len(port.calls) =>
              port.failAt = Len(port.calls)
        /\ port.failed => result.tag = "Err" /\ result.err = IoError

C15_Witness ==
    /\ Done("analog_write")
    /\ port.failAt = 2
    /\ Len(port.calls) = 2
    /\ port.failed
    /\ result.err = IoError

\* C16: for a value v in 0 .. 1023 analog_write writes one request of three
\* bytes (opcode, v mod 256, v div 256), the opcode 10 for Port0 and 11 for
\* Port1, and bytes 2 and 3 read as a little-endian u16 are v.
C16_AnalogWriteRequest ==
    (Done("analog_write") /\ op.arg <= 1023) =>
        /\ Len(Logged("write_all")) = 1
        /\ port.calls[1] =
              Call("write_all",
                   <<IF op.sel = "Port0" THEN 10 ELSE 11,
                     op.arg % 256, op.arg \div 256>>, 0)
        /\ port.calls[1].data[2] + 256 * port.calls[1].data[3] = op.arg

C16_Witness ==
    /\ Done("analog_write")
    /\ op.sel = "Port1"
    /\ op.arg = 1023
    /\ port.calls[1].data = <<11, 255, 3>>

\* The number of response bytes of each command.
ResponseLen(name) ==
    CASE name = "test" -> 2
      [] name = "digital_write" -> 1
      [] name = "digital_read" -> 1
      [] name = "analog_write" -> 1
      [] name = "analog_read" -> 2
      [] name = "set_pwm_frequency" -> 1
      [] name = "set_pwm_vale" -> 1

\* The bytes the reads of the call asked for, summed.
RECURSIVE BytesAsked(_)
BytesAsked(reads) ==
    IF reads = <<>> THEN 0 ELSE Head(reads).n + BytesAsked(Tail(reads))

\* C19: a command that returns without a transport error (success, a false
\* handshake result or B15FError) has taken from the transport exactly the
\* response bytes of its opcode; test() takes both bytes also when the
\* status byte is not 0xFF.
C19_FramingKept ==
    (pc = "returned" /\ op.name \in CommandOps
        /\ result.tag \in {"Ok", "Err"} /\ ~port.failed) =>
        /\ Len(fed) - Len(port.rx) = ResponseLen(op.name)
        /\ BytesAsked(Logged("read_exact")) = ResponseLen(op.name)

C19_Witness ==
    /\ Done("test")
    /\ ~port.failed
    /\ result.tag = "Err"
    /\ result.err = B15FError
    /\ Len(fed) = 2
    /\ port.rx = <<>>

\* The ports a multi-read can name, in the order the claim gives: digital 0,
\* digital 1, analog 0 .. 7; the request of each and the place of its value.
ReadManyItems ==
    << [flag |-> Digital0, data |-> <<RQ_DIGITAL_READ_0>>, size |-> 1, at |-> 1],
       [flag |-> Digital1, data |-> <<RQ_DIGITAL_READ_1>>, size |-> 1, at |-> 2] >>
    \o [c \in 1 .. 8 |->
          [flag |-> from_analog(c - 1), data |-> <<RQ_ANALOG_READ, c - 1>>,
           size |-> 2, at |-> c]]

Requested(many) ==
    LET Asked(it) == contains(many, it.flag)
    IN  SelectSeq(ReadManyItems, Asked)

\* The number of response bytes before those of the k-th requested port.
RECURSIVE Offset(_, _)
Offset(req, k) ==
    IF k = 1 THEN 0 ELSE Offset(req, k - 1) + req[k - 1].size

\* The value the k-th requested port's response bytes stand for.
Decoded(req, k) ==
    LET off == Offset(req, k)
    IN  IF req[k].size = 1
        THEN LET b == fed[off + 1]
             IN  128 * Bit(b, 0) + 64 * Bit(b, 1) + 32 * Bit(b, 2)
                 + 16 * Bit(b, 3) + 8 * Bit(b, 4) + 4 * Bit(b, 5)
                 + 2 * Bit(b, 6) + Bit(b, 7)
        ELSE fed[off + 1] + 256 * fed[off + 2]

\* The multi-read sent the requests of req in order, read the responses in
\* that order, and returned each value at its place and 0 elsewhere.
ReadManyAsClaimed(req) ==
    /\ Len(Logged("write_all")) = Len(req)
    /\ \A k \in 1 .. Len(req) : Logged("write_all")[k].data = req[k].data
    /\ Len(Logged("read_exact")) = Len(req)
    /\ \A k \in 1 .. Len(req) : Logged("read_exact")[k].n = req[k].size
    /\ result.tag = "Ok"
    /\ \A k \in 1 .. Len(req) :
          result.val[IF req[k].size = 1 THEN 1 ELSE 2][req[k].at]
              = Decoded(req, k)
    /\ \A i \in 1 .. 2 :
          (\A k \in 1 .. Len(req) : ~(req[k].size = 1 /\ req[k].at = i))
              => result.val[1][i] = 0
    /\ \A c \in 1 .. Len(result.val[2]) :
          (\A k \in 1 .. Len(req) : ~(req[k].size = 2 /\ req[k].at = c))
              => result.val[2][c] = 0

\* C20: for every set of requested ports the multi-read sends one request
\* per requested port (digital 0, digital 1, analog 0 .. 7), reads the
\* responses in that order and returns normally, each digital value at its
\* index of the first array, each analog channel c at index c of the
\* second, the other entries 0.
C20_ReadManyReturnsAll ==
    (Done("experiment_read_many") /\ ~port.failed) =>
        ReadManyAsClaimed(Requested(op.arg))


\* The log holds exactly one handshake round trip: one request of two bytes
\* written, one response of two bytes read.
OneHandshake(calls) ==
    LET W == {i \in 1 .. Len(calls) : calls[i].fn = "write_all"}
        R == {i \in 1 .. Len(calls) : calls[i].fn = "read_exact"}
    IN  /\ Cardinality(W) = 1
        /\ Cardinality(R) = 1
        /\ \A i \in W : Len(calls[i].data) = 2 /\ calls[i].data[1] = RQ_TEST
        /\ \A i \in R : calls[i].n = 2

C17_OneTransportOpen ==
    /\ peak <= 1
    /\ Cardinality(held) <= 1
    /\ dpc = "loop" => held = {}
    /\ dpc = "done" =>
          held = (IF found.tag = "Some" THEN {found.val} ELSE {})

C17_Witness ==
    /\ dpc = "done"
    /\ found.tag = "Some"
    /\ held = {found.val}
    /\ \E i \in 1 .. Len(skipped) : skipped[i].init = "Ok"
    /\ peak = 1

\* No endpoint is probed twice and no more endpoints are probed than were
\* enumerated, one after the other.
NoRevisit ==
    /\ Len(skipped) <= Len(ports)
    /\ \A i, j \in 1 .. Len(skipped) :
          skipped[i].name = skipped[j].name => i = j
    /\ found.tag = "Some" =>
          \A i \in 1 .. Len(skipped) : skipped[i].name # found.val
    /\ dpc = "loop" => idx = Len(skipped) + 1
    /\ peak <= 1

\* C18: every transport call returning, instance() ends after opening
\* each enumerated endpoint at most once, one candidate at a time and none
\* twice.
C18_BoundedScan ==
    /\ []NoRevisit
    /\ (dpc = "loop") ~> (dpc = "done")

C18_Witness ==
    /\ dpc = "done"
    /\ found = None
    /\ Len(ports) = 2
    /\ Len(skipped) = 2
    /\ skipped[1].name # skipped[2].name

====
